---- MODULE Spec2Model ----
(***************************************************************************)
(* Ingestion pipeline of prediction-pulse: ingest_kalshi.py and            *)
(* ingest_polymarket.py writing the three tables of db.py through one      *)
(* SQLAlchemy session per run.                                             *)
(*                                                                         *)
(* Strings that the code builds by concatenation (market_id,               *)
(* contract_ticker) are sequences of tokens over {"poly_", "a", "_",       *)
(* "YES"}, so that f"poly_{condition_id}" is <<"poly_">> \o condition_id.  *)
(* Optional values are tagged: None, Num(n), Str(s); List stands for a     *)
(* value of a type the SQLite driver cannot bind to a parameter.           *)
(***************************************************************************)
EXTENDS Integers, Sequences, FiniteSets, TLC

\* Bounds of the model.
MaxSteps == 4       \* batch entries consumed, summed over all runs
MaxRuns == 2        \* calls of ingest_markets

None == [k |-> "none"]
Num(n) == [k |-> "num", v |-> n]
Str(s) == [k |-> "str", v |-> s]
List == [k |-> "list"]

SOURCE == "polymarket"
DefaultSource == "kalshi"
Sources == {"kalshi", SOURCE}

\* A missing native identifier (None or ""): both are falsy in the code.
NoId == <<>>
IdA == <<"a">>

(***************************************************************************)
(* A parsed market, as parse_market returns it.  id is "ticker" (Kalshi)   *)
(* or "condition_id" (Polymarket); last is "last_price" or "yes_price";    *)
(* volume is "volume_24h" or "volume"; bid and ask are "yes_bid" and       *)
(* "yes_ask", which only the Kalshi path reads.                            *)
(***************************************************************************)
PayloadA ==
    [id |-> NoId, title |-> Str("A"), category |-> None, status |-> Str("open"),
     expiry |-> None, bid |-> None, ask |-> None, last |-> Num(62),
     volume |-> None]
PayloadB ==
    [id |-> NoId, title |-> Str("B"), category |-> Str("Crypto"),
     status |-> Str("closed"), expiry |-> Num(5), bid |-> Num(70),
     ask |-> Num(72), last |-> Num(71), volume |-> Num(10)]
PayloadNoTitle == [PayloadA EXCEPT !.title = None]
PayloadBadPrice == [PayloadA EXCEPT !.last = List]

\* The entries a batch is drawn from: one without identity, two versions of
\* the same market, one the store rejects (title is NOT NULL) and one whose
\* price the driver cannot bind.
InputMarkets ==
    {PayloadA,
     [PayloadA EXCEPT !.id = IdA],
     [PayloadB EXCEPT !.id = IdA],
     [PayloadNoTitle EXCEPT !.id = IdA],
     [PayloadBadPrice EXCEPT !.id = IdA]}

\* A batch entry that is no dict: m.get raises AttributeError.
NotADict == [k |-> "notdict"]

EmptyStore == [markets |-> <<>>, contracts |-> <<>>, prices |-> <<>>]
ZeroStats ==
    [markets_processed |-> 0, contracts_processed |-> 0, prices_inserted |-> 0,
     errors |-> <<>>]

VARIABLES
    db,         \* the committed contents of the database file
    tx,         \* the contents as the session's open transaction sees them
    pending,    \* Price objects added to the session and not yet flushed
    active,     \* FALSE once a flush failed: the session wants rollback()
    pc,         \* "idle", "loop" (inside ingest_markets), "done"
    source,     \* which module's ingest_markets is running
    stats,      \* the stats dict of the running call
    result,     \* "none", "return", or the exception the call raised
    clock,      \* utcnow(), one tick per call of ingest_markets
    steps,      \* batch entries consumed so far, over all runs
    log,        \* history: the entries of this call's batch and what happened
    prev,       \* history: source and log of the first call, if it was clean
    dbBefore,   \* history: db when this call started
    session,    \* the Session object of the call: its state and how often
                \* close() was called on it
    stage,      \* position of main(): "start", "fetched", "parsed",
                \* "filtered", "ingest", "returned" (after a fetch error),
                \* "completed" (after print_summary) or "crashed" (an
                \* exception left main before ingest_markets)
    args,       \* the module main() belongs to and its filter arguments
    response,   \* what fetch_markets produced: a JSON document or Raise(e)
    raw_markets, \* the items of the list fetch_markets returned
    parsed,     \* [parse_market(m) for m in raw_markets], or what it raised
    filtered,   \* what filter_markets returned, or what it raised
    now,        \* datetime.now() read by filter_markets, as local wall time
    crash,      \* the exception that left main(), or "none"
    printed,    \* the lines print_summary wrote to stdout
    ingest_all, \* main() of ingest_all.py: its position, its two flags and
                \* how the call of each source's main() ended
    app         \* get_db_session() of app.py: whether it has run, what it
                \* found and did, and the database before and after it

\* The state of main() before ingest_markets is called.
fetchvars ==
    <<stage, args, response, raw_markets, parsed, filtered, now, crash,
      printed>>

\* The state outside ingest_markets.
\* The programs that call the ingestion or open its database.
callers == <<ingest_all, app>>

outervars == <<fetchvars, callers>>

vars ==
    <<db, tx, pending, active, pc, source, stats, result, clock, steps, log,
      prev, dbBefore, session, stage, args, response, raw_markets, parsed,
      filtered, now, crash, printed, ingest_all, app>>

utcnow == clock

(***************************************************************************)
(* Identity construction.                                                  *)
(***************************************************************************)
MarketId(src, m) ==
    IF src = SOURCE THEN <<"poly_">> \o m.id ELSE m.id

ContractTicker(src, id, side) ==
    IF src = SOURCE THEN <<"poly_">> \o id \o <<"_", side>> ELSE id

ContractDescription(src, market_id, side) ==
    IF src = SOURCE THEN <<side, " contract">>
    ELSE <<side, " contract for ">> \o market_id

\* Index of the row of table t whose column col equals v (0 when none).
RowOf(t, col, v) ==
    IF \E i \in 1..Len(t) : t[i][col] = v
    THEN CHOOSE i \in 1..Len(t) : t[i][col] = v
    ELSE 0

\* Mutant: the conflict clause forgets a column (status stays as it was).
upsert_market_stale(t, src, m) ==
    LET market_id == MarketId(src, m)
        i == RowOf(t, "market_id", market_id)
    IN  IF i = 0
        THEN Append(t, [market_id |-> market_id,
                        source |-> IF src = SOURCE THEN SOURCE ELSE DefaultSource,
                        title |-> m.title, category |-> m.category,
                        status |-> m.status, expiry_ts |-> m.expiry,
                        created_at |-> utcnow, updated_at |-> utcnow])
        ELSE [t EXCEPT ![i] = [@ EXCEPT !.title = m.title,
                                        !.category = m.category,
                                        !.expiry_ts = m.expiry,
                                        !.updated_at = utcnow]]

\* Mutant: INSERT OR REPLACE, which writes a fresh row on conflict and so
\* resets created_at.
upsert_market_replace(t, src, m) ==
    LET market_id == MarketId(src, m)
        i == RowOf(t, "market_id", market_id)
        row == [market_id |-> market_id,
                source |-> IF src = SOURCE THEN SOURCE ELSE DefaultSource,
                title |-> m.title, category |-> m.category,
                status |-> m.status, expiry_ts |-> m.expiry,
                created_at |-> utcnow, updated_at |-> utcnow]
    IN  IF i = 0 THEN Append(t, row) ELSE [t EXCEPT ![i] = row]

(***************************************************************************)
(* INSERT ... ON CONFLICT (market_id) DO UPDATE on the markets table.      *)
(***************************************************************************)
upsert_market(t, src, m) ==
    LET market_id == MarketId(src, m)
        i == RowOf(t, "market_id", market_id)
    IN  IF i = 0
        THEN Append(t, [market_id |-> market_id,
                        source |-> IF src = SOURCE THEN SOURCE ELSE DefaultSource,
                        title |-> m.title, category |-> m.category,
                        status |-> m.status, expiry_ts |-> m.expiry,
                        created_at |-> utcnow, updated_at |-> utcnow])
        ELSE [t EXCEPT ![i] = [@ EXCEPT !.title = m.title,
                                        !.category = m.category,
                                        !.status = m.status,
                                        !.expiry_ts = m.expiry,
                                        !.updated_at = utcnow]]

\* Mutant: the contract row names the native identifier, not the market_id
\* of the market row.
upsert_contract_native(t, src, market_id, id, side) ==
    LET contract_ticker == ContractTicker(src, id, side)
        i == RowOf(t, "contract_ticker", contract_ticker)
    IN  IF i = 0
        THEN Append(t, [market_id |-> id,
                        contract_ticker |-> contract_ticker, side |-> side,
                        description |-> ContractDescription(src, market_id, side),
                        created_at |-> utcnow])
        ELSE [t EXCEPT ![i] = [@ EXCEPT !.side = side,
                                        !.description =
                                            ContractDescription(src, market_id, side)]]

(***************************************************************************)
(* INSERT ... ON CONFLICT (contract_ticker) DO UPDATE on contracts.        *)
(***************************************************************************)
upsert_contract(t, src, market_id, id, side) ==
    LET contract_ticker == ContractTicker(src, id, side)
        i == RowOf(t, "contract_ticker", contract_ticker)
    IN  IF i = 0
        THEN Append(t, [market_id |-> market_id,
                        contract_ticker |-> contract_ticker, side |-> side,
                        description |-> ContractDescription(src, market_id, side),
                        created_at |-> utcnow])
        ELSE [t EXCEPT ![i] = [@ EXCEPT !.side = side,
                                        !.description =
                                            ContractDescription(src, market_id, side)]]

\* The Price object insert_price_snapshot adds to the session.
insert_price_snapshot(src, contract_id, m) ==
    [contract_id |-> contract_id, timestamp |-> utcnow,
     bid_price |-> IF src = SOURCE THEN None ELSE m.bid,
     ask_price |-> IF src = SOURCE THEN None ELSE m.ask,
     last_price |-> m.last, volume_24h |-> m.volume]

\* The driver rejects a parameter of an unsupported type.
Bindable(p) ==
    /\ p.bid_price # List
    /\ p.ask_price # List
    /\ p.last_price # List
    /\ p.volume_24h # List

\* session.flush(): the pending Price objects are INSERTed, in order.
FlushOk(ps) == \A i \in 1..Len(ps) : Bindable(ps[i])
\* Mutant: the snapshot is upserted on contract_id, overwriting the row the
\* contract already has.
Flushed_upsert(t, ps) ==
    IF ps = <<>> THEN t
    ELSE [t EXCEPT !.prices =
            IF \E i \in 1..Len(@) : @[i].contract_id = ps[1].contract_id
            THEN [i \in 1..Len(@) |->
                    IF @[i].contract_id = ps[1].contract_id THEN ps[1] ELSE @[i]]
            ELSE @ \o ps]

\* Mutant: the Price objects added to the session never reach the table.
Flushed_dropped(t, ps) == t

Flushed(t, ps) == [t EXCEPT !.prices = @ \o ps]

\* stats["errors"].append(f"{ticker}: {str(e)}"), with the native identifier.
ErrorEntry(m, e) == [id |-> m.id, msg |-> e]
Logged(m, out) == Append(log, [m |-> m, out |-> out])

\* Mutant: the failure path commits what the transaction wrote.
session_rollback_commits(d, t) == t

\* session.rollback(): the database keeps its committed contents d and the
\* writes of the transaction (its view t) are discarded.
session_rollback(d, t) == d

\* No call of ingest_markets has created a session yet.
NoSession == [state |-> "none", closes |-> 0]
\* session = get_session(engine)
get_session == [state |-> "open", closes |-> 0]
\* session.close()
session_close(s) == [state |-> "closed", closes |-> s.closes + 1]

NoPrev == [source |-> "kalshi", log |-> <<>>, result |-> "none"]

\* main() has not parsed its command line yet.
NoArgs ==
    [source |-> "kalshi", category |-> None, min_volume |-> None,
     future_only |-> TRUE]

\* main() has not called fetch_markets yet.
NoResponse == [k |-> "noresponse"]

\* get_db_session() of app.py has not been called yet.
NoApp ==
    [at |-> "stopped", exists |-> FALSE, column |-> FALSE, probe |-> "none",
     removed |-> FALSE, market_count |-> 0, seeded |-> FALSE,
     before |-> EmptyStore, after |-> EmptyStore]

\* main() of ingest_all.py has not parsed its command line yet.
AllStart ==
    [at |-> "start", kalshi_only |-> FALSE, poly_only |-> FALSE,
     outcomes |-> <<>>]

\* The call that just ended ran on the empty store and returned no errors.
CleanFirstRun ==
    /\ result = "return"
    /\ stats.errors = <<>>
    /\ dbBefore = EmptyStore

(***************************************************************************)
(* ingest_markets, up to the loop: a session is opened on the database.    *)
(***************************************************************************)
StartRun(src) ==
    /\ pc \in {"idle", "done"}
    /\ clock < MaxRuns
    /\ pc' = "loop"
    /\ source' = src
    /\ clock' = clock + 1
    /\ tx' = db
    /\ pending' = <<>>
    /\ active' = TRUE
    /\ stats' = ZeroStats
    /\ result' = "none"
    /\ log' = <<>>
    /\ prev' = IF pc = "done" /\ CleanFirstRun
               THEN [source |-> source, log |-> log, result |-> result]
               ELSE NoPrev
    /\ dbBefore' = db
    /\ session' = get_session
    /\ UNCHANGED <<db, steps>>

InLoop ==
    /\ pc = "loop"
    /\ steps < MaxSteps

\* Mutant: a market without identity is recorded as an error.
StepSkip_error(m) ==
    /\ InLoop
    /\ m.id = NoId
    /\ steps' = steps + 1
    /\ stats' = [stats EXCEPT !.errors = Append(@, ErrorEntry(m, "KeyError"))]
    /\ log' = Logged(m, "skip")
    /\ UNCHANGED <<db, tx, pending, active, pc, source, result, clock, prev,
                   dbBefore, session>>

\* "if not ticker: continue"
StepSkip(m) ==
    /\ InLoop
    /\ m.id = NoId
    /\ steps' = steps + 1
    /\ log' = Logged(m, "skip")
    /\ UNCHANGED <<db, tx, pending, active, pc, source, stats, result, clock,
                   prev, dbBefore, session>>

\* The session's transaction was rolled back by a failed flush: every
\* session.execute raises PendingRollbackError, which the handler records.
StepPendingRollback(m) ==
    /\ InLoop
    /\ m.id # NoId
    /\ ~active
    /\ steps' = steps + 1
    /\ stats' = [stats EXCEPT !.errors =
                    Append(@, ErrorEntry(m, "PendingRollbackError"))]
    /\ log' = Logged(m, "inactive")
    /\ UNCHANGED <<db, tx, pending, active, pc, source, result, clock, prev,
                   dbBefore, session>>

\* upsert_market flushes the Price added for the entry before (session.add
\* emits no SQL).  Its INSERT fails: the flush rolls the whole transaction
\* back, leaves the session inactive and raises inside this entry's handler.
StepFlushFails(m) ==
    /\ InLoop
    /\ m.id # NoId
    /\ active
    /\ ~FlushOk(pending)
    /\ steps' = steps + 1
    /\ tx' = db
    /\ pending' = <<>>
    /\ active' = FALSE
    /\ stats' = [stats EXCEPT !.errors =
                    Append(@, ErrorEntry(m, "StatementError"))]
    /\ log' = Logged(m, "flushfail")
    /\ UNCHANGED <<db, pc, source, result, clock, prev, dbBefore, session>>

\* The market upsert statement fails (markets.title is NOT NULL): the
\* statement writes nothing and the transaction stays usable.
StepMarketFails(m) ==
    /\ InLoop
    /\ m.id # NoId
    /\ active
    /\ FlushOk(pending)
    /\ m.title = None
    /\ steps' = steps + 1
    /\ tx' = Flushed(tx, pending)
    /\ pending' = <<>>
    /\ stats' = [stats EXCEPT !.errors =
                    Append(@, ErrorEntry(m, "IntegrityError"))]
    /\ log' = Logged(m, "marketfail")
    /\ UNCHANGED <<db, active, pc, source, result, clock, prev, dbBefore,
                   session>>

\* The market upsert succeeds and the contract upsert statement raises (the
\* store fails the statement).
StepContractFails(m) ==
    /\ InLoop
    /\ m.id # NoId
    /\ active
    /\ FlushOk(pending)
    /\ m.title # None
    /\ steps' = steps + 1
    /\ tx' = [Flushed(tx, pending) EXCEPT
                !.markets = upsert_market(@, source, m)]
    /\ pending' = <<>>
    /\ stats' = [stats EXCEPT !.markets_processed = @ + 1,
                              !.errors =
                    Append(@, ErrorEntry(m, "OperationalError"))]
    /\ log' = Logged(m, "contractfail")
    /\ UNCHANGED <<db, active, pc, source, result, clock, prev, dbBefore,
                   session>>

\* All three calls of the per-market step succeed.
StepOk(m) ==
    /\ InLoop
    /\ m.id # NoId
    /\ active
    /\ FlushOk(pending)
    /\ m.title # None
    /\ LET market_id == MarketId(source, m)
           markets == upsert_market(tx.markets, source, m)
           contracts == upsert_contract(tx.contracts, source, market_id,
                                        m.id, "YES")
           contract_id == RowOf(contracts, "contract_ticker",
                                ContractTicker(source, m.id, "YES"))
       IN  /\ tx' = [Flushed(tx, pending) EXCEPT !.markets = markets,
                                                 !.contracts = contracts]
           /\ pending' = <<insert_price_snapshot(source, contract_id, m)>>
    /\ steps' = steps + 1
    /\ stats' = [stats EXCEPT !.markets_processed = @ + 1,
                              !.contracts_processed = @ + 1,
                              !.prices_inserted = @ + 1]
    /\ log' = Logged(m, "ok")
    /\ UNCHANGED <<db, active, pc, source, result, clock, prev, dbBefore,
                   session>>

\* An entry that is no dict: AttributeError outside the per-market handler;
\* the outer handler rolls back, re-raises, and the session is closed.
StepNotADict ==
    /\ InLoop
    /\ steps' = steps + 1
    /\ log' = Logged(NotADict, "escape")
    /\ pc' = "done"
    /\ result' = "AttributeError"
    /\ db' = session_rollback(db, tx)
    /\ tx' = db'
    /\ pending' = <<>>
    /\ session' = session_close(session)
    /\ UNCHANGED <<active, source, stats, clock, prev, dbBefore>>

\* End of the batch: session.commit() flushes and commits; the finally
\* clause closes the session; stats returned.
CommitOk ==
    /\ pc = "loop"
    /\ active
    /\ FlushOk(pending)
    /\ db' = Flushed(tx, pending)
    /\ tx' = db'
    /\ pending' = <<>>
    /\ pc' = "done"
    /\ result' = "return"
    /\ session' = session_close(session)
    /\ UNCHANGED <<active, source, stats, clock, steps, log, prev, dbBefore>>

\* Mutant: no finally clause; the failure path leaves the session open.
CommitFails_open(env) ==
    /\ pc = "loop"
    /\ env \/ ~active \/ ~FlushOk(pending)
    /\ db' = session_rollback(db, tx)
    /\ tx' = db'
    /\ pending' = <<>>
    /\ pc' = "done"
    /\ result' = IF ~active THEN "PendingRollbackError"
                 ELSE IF ~FlushOk(pending) THEN "StatementError"
                 ELSE "OperationalError"
    /\ UNCHANGED <<active, source, stats, clock, steps, log, prev, dbBefore,
                   session>>

\* session.commit() raises: the session is inactive, the flush of the last
\* Price fails, or the store cannot commit (env).  session.rollback(),
\* raise e, and session.close() in the finally clause.
CommitFails(env) ==
    /\ pc = "loop"
    /\ env \/ ~active \/ ~FlushOk(pending)
    /\ db' = session_rollback(db, tx)
    /\ tx' = db'
    /\ pending' = <<>>
    /\ pc' = "done"
    /\ result' = IF ~active THEN "PendingRollbackError"
                 ELSE IF ~FlushOk(pending) THEN "StatementError"
                 ELSE "OperationalError"
    /\ session' = session_close(session)
    /\ UNCHANGED <<active, source, stats, clock, steps, log, prev, dbBefore>>

Init ==
    /\ db = EmptyStore
    /\ tx = EmptyStore
    /\ pending = <<>>
    /\ active = TRUE
    /\ pc = "idle"
    /\ source = "kalshi"
    /\ stats = ZeroStats
    /\ result = "none"
    /\ clock = 0
    /\ steps = 0
    /\ log = <<>>
    /\ prev = NoPrev
    /\ dbBefore = EmptyStore
    /\ session = NoSession
    /\ stage = "start"
    /\ args = NoArgs
    /\ response = NoResponse
    /\ raw_markets = <<>>
    /\ parsed = <<>>
    /\ filtered = <<>>
    /\ now = 0
    /\ crash = "none"
    /\ printed = <<>>
    /\ ingest_all = AllStart
    /\ app = NoApp

\* ingest_markets called directly, on any batch drawn from InputMarkets.
Next ==
    \/ \E src \in Sources : StartRun(src) /\ UNCHANGED outervars
    \/ \E m \in InputMarkets : StepSkip(m) /\ UNCHANGED outervars
    \/ \E m \in InputMarkets : StepPendingRollback(m) /\ UNCHANGED outervars
    \/ \E m \in InputMarkets : StepFlushFails(m) /\ UNCHANGED outervars
    \/ \E m \in InputMarkets : StepMarketFails(m) /\ UNCHANGED outervars
    \/ \E m \in InputMarkets : StepContractFails(m) /\ UNCHANGED outervars
    \/ \E m \in InputMarkets : StepOk(m) /\ UNCHANGED outervars
    \/ StepNotADict /\ UNCHANGED outervars
    \/ CommitOk /\ UNCHANGED outervars
    \/ \E env \in BOOLEAN : CommitFails(env) /\ UNCHANGED outervars

Spec == Init /\ [][Next]_vars

(***************************************************************************)
(* The fetch side: fetch_polymarket.py and fetch_kalshi_markets.py.        *)
(*                                                                         *)
(* Raw JSON values are tagged like the optional values above.  Dec(h) is   *)
(* the float h/100; NumStr(x) is a str that float() reads as x; Json(d)    *)
(* is a str holding the JSON text of d; Arr(s) is a list; Obj is a dict;   *)
(* Iso(w, z) is an ISO-8601 str of wall time w with suffix z (Str("Z"),    *)
(* a numeric UTC offset, or None for no suffix); Dt(w, tz) is a datetime.  *)
(* Any other Str is text that is neither a number, JSON nor a date.        *)
(***************************************************************************)
Dec(h) == [k |-> "dec", h |-> h]
NumStr(x) == [k |-> "numstr", x |-> x]
Json(d) == [k |-> "json", doc |-> d]
Arr(s) == [k |-> "arr", items |-> s]
Obj == [k |-> "obj"]
Iso(w, z) == [k |-> "iso", wall |-> w, suffix |-> z]
Dt(w, tz) == [k |-> "dt", wall |-> w, tz |-> tz]
Raise(e) == [k |-> "raise", exc |-> e]
\* A dict with the one key "markets", holding v.
Markets(v) == [k |-> "markets", v |-> v]

IsRaise(v) == "k" \in DOMAIN v /\ v.k = "raise"
IsStr(v) == v.k \in {"str", "numstr", "json", "iso"}

\* bool(v)
Truthy(v) ==
    CASE v.k = "none" -> FALSE
      [] v.k = "str" -> v.v # ""
      [] v.k = "num" -> v.v # 0
      [] v.k = "dec" -> v.h # 0
      [] v.k = "arr" -> v.items # <<>>
      [] OTHER -> TRUE

\* a or b
Or(a, b) == IF Truthy(a) THEN a ELSE b
\* a or b, for native identifiers (token sequences; None and "" are <<>>)
IdOr(a, b) == IF a # NoId THEN a ELSE b

\* float(v)
Float(v) ==
    CASE v.k \in {"num", "dec"} -> v
      [] v.k = "numstr" -> v.x
      [] IsStr(v) -> Raise("ValueError")
      [] OTHER -> Raise("TypeError")

\* Mutant: the probability is stored on the source's scale.
Times100_unscaled(x) == x

\* x * 100, for a float x
Times100(x) ==
    IF x.k = "num" THEN Num(x.v * 100) ELSE Num(x.h)

\* int(x), for a float x
IntOf(x) ==
    IF x.k = "num" THEN x ELSE Num(x.h \div 100)

\* json.loads(s), for a str s
Loads(s) ==
    CASE s.k = "json" -> s.doc
      [] s.k = "numstr" -> s.x
      [] OTHER -> Raise("JSONDecodeError")

\* v[0]
Index0(v) ==
    CASE v.k = "arr" -> IF v.items = <<>> THEN Raise("IndexError") ELSE v.items[1]
      [] v.k = "obj" -> Raise("KeyError")
      [] OTHER -> Raise("TypeError")

\* float(v[0]) * 100, with the exception either step raises
ScaledFirst(v) ==
    LET first == Index0(v)
        x == IF IsRaise(first) THEN first ELSE Float(first)
    IN  IF IsRaise(x) THEN x ELSE Times100(x)

\* datetime.fromisoformat(s.replace("Z", "+00:00")), for a str s
FromIso(s) ==
    IF s.k = "iso"
    THEN Dt(s.wall, IF s.suffix.k = "str" THEN Num(0) ELSE s.suffix)
    ELSE Raise("ValueError")

\* str.lower, str.capitalize and the "in" of two strs, over the vocabulary
\* of the model.
Lower(s) ==
    CASE s = "Crypto" -> "crypto"
      [] s = "Politics" -> "politics"
      [] s = "Economics" -> "economics"
      [] s = "US-Politics" -> "us-politics"
      [] OTHER -> s
Capitalize(s) ==
    CASE s = "crypto" -> "Crypto"
      [] s = "politics" -> "Politics"
      [] s = "economics" -> "Economics"
      [] s = "sports" -> "Sports"
      [] s = "science" -> "Science"
      [] s = "entertainment" -> "Entertainment"
      [] OTHER -> s
Contains(a, b) ==
    \/ a = ""
    \/ a = b
    \/ <<a, b>> \in {<<"politics", "us-politics">>,
                      <<"politics", "crypto-politics">>,
                      <<"crypto", "crypto-politics">>}

category_keywords ==
    <<"politics", "crypto", "sports", "science", "entertainment", "economics">>

\* Mutant: the keyword vocabulary is not consulted.
extract_category_verbatim(tags) ==
    IF ~Truthy(tags) THEN None
    ELSE IF tags.k # "arr" THEN Raise("TypeError")
    ELSE tags.items[1]

\* extract_category(tags)
extract_category(tags) ==
    IF ~Truthy(tags) THEN None
    ELSE IF tags.k # "arr" THEN Raise("TypeError")
    ELSE LET lower(t) == IF t.k = "str" THEN Lower(t.v) ELSE ""
             hit(i) == \E j \in 1..Len(category_keywords) :
                           Contains(category_keywords[j], lower(tags.items[i]))
         IN  IF \E i \in 1..Len(tags.items) : hit(i)
             THEN LET i == CHOOSE i \in 1..Len(tags.items) :
                              hit(i) /\ \A h \in 1..(i - 1) : ~hit(h)
                      j == CHOOSE j \in 1..Len(category_keywords) :
                              /\ Contains(category_keywords[j], lower(tags.items[i]))
                              /\ \A h \in 1..(j - 1) :
                                    ~Contains(category_keywords[h],
                                              lower(tags.items[i]))
                  IN  Str(Capitalize(category_keywords[j]))
             ELSE tags.items[1]

\* The expiry of parse_market.
ParseExpiry(src, v) ==
    IF ~Truthy(v) THEN None
    ELSE IF ~IsStr(v)
         THEN IF src = SOURCE THEN None ELSE Raise("AttributeError")
    ELSE LET d == FromIso(v) IN IF IsRaise(d) THEN None ELSE d

\* The yes_price of fetch_polymarket.parse_market.  "import json" sits in
\* the str branch and makes json a local name: when the other branch
\* raises, evaluating the except clause raises UnboundLocalError.
ParsePrice(raw) ==
    LET caught == {"JSONDecodeError", "IndexError", "TypeError", "ValueError"}
    IN  IF Truthy(raw.outcomePrices)
        THEN IF IsStr(raw.outcomePrices)
             THEN LET prices == Loads(raw.outcomePrices)
                      p == IF IsRaise(prices) THEN prices ELSE ScaledFirst(prices)
                  IN  IF IsRaise(p) /\ p.exc \in caught THEN None ELSE p
             ELSE LET p == ScaledFirst(raw.outcomePrices)
                  IN  IF IsRaise(p) THEN Raise("UnboundLocalError") ELSE p
        ELSE LET yes_price == Or(raw.bestAsk, raw.lastTradePrice)
             IN  IF Truthy(yes_price)
                 THEN LET x == Float(yes_price)
                      IN  IF IsRaise(x) THEN x ELSE Times100(x)
                 ELSE yes_price

\* The volume of fetch_polymarket.parse_market.
ParseVolume(raw) ==
    LET volume == Or(raw.volume, raw.volumeNum)
    IN  IF Truthy(volume)
        THEN LET x == Float(volume) IN IF IsRaise(x) THEN None ELSE IntOf(x)
        ELSE volume

\* The first exception among the fields of a record under construction.
FirstRaise(vs) ==
    IF \E i \in 1..Len(vs) : IsRaise(vs[i])
    THEN vs[CHOOSE i \in 1..Len(vs) :
                IsRaise(vs[i]) /\ \A h \in 1..(i - 1) : ~IsRaise(vs[h])]
    ELSE None

(***************************************************************************)
(* parse_market of either module.  The result has the fields of a batch    *)
(* entry; volume_total is the "volume" key of a Kalshi market, which only  *)
(* filter_markets reads.  A raw item that is no dict (a tagged value) has  *)
(* no get().                                                               *)
(***************************************************************************)
parse_market(src, raw) ==
    IF "k" \in DOMAIN raw THEN Raise("AttributeError")
    ELSE IF src = SOURCE
    THEN LET expiry == ParseExpiry(src, Or(raw.endDate, raw.end_date_iso))
             yes_price == ParsePrice(raw)
             volume == ParseVolume(raw)
             category == Or(raw.category, extract_category(raw.tags))
             e == FirstRaise(<<expiry, yes_price, volume, category>>)
         IN  IF IsRaise(e) THEN e
             ELSE [id |-> IdOr(raw.conditionId, raw.condition_id),
                   title |-> Or(raw.question, raw.title),
                   category |-> category,
                   status |-> IF Truthy(raw.active) THEN Str("open")
                              ELSE Str("closed"),
                   expiry |-> expiry, bid |-> None, ask |-> None,
                   last |-> yes_price, volume |-> volume]
    ELSE LET expiry == ParseExpiry(src, Or(raw.close_time, raw.expiration_time))
         IN  IF IsRaise(expiry) THEN expiry
             ELSE [id |-> raw.ticker,
                   title |-> Or(raw.title, raw.subtitle),
                   category |-> raw.category, status |-> raw.status,
                   expiry |-> expiry, bid |-> raw.yes_bid, ask |-> raw.yes_ask,
                   last |-> raw.last_price, volume |-> raw.volume_24h,
                   volume_total |-> raw.volume]

(***************************************************************************)
(* filter_markets of either module, one market at a time: "keep", "drop"   *)
(* or the exception the loop body raises.  t is now.replace(tzinfo=None);  *)
(* expiry.replace(tzinfo=None) is the wall time of the datetime.           *)
(***************************************************************************)
FilterOne(src, m, category, min_volume, future_only, t) ==
    LET essential == src # SOURCE \/ (m.id # NoId /\ Truthy(m.title))
        market_category == Or(m.category, Str(""))
        cat == IF ~Truthy(category) THEN "keep"
               ELSE IF market_category.k # "str" THEN "AttributeError"
               ELSE IF Contains(Lower(category.v), Lower(market_category.v))
                    THEN "keep" ELSE "drop"
        vol == IF src = SOURCE THEN Or(m.volume, Num(0))
               ELSE Or(Or(m.volume_total, m.volume), Num(0))
        volume == IF ~Truthy(min_volume) THEN "keep"
                  ELSE IF vol.k # "num" THEN "TypeError"
                  ELSE IF vol.v < min_volume.v THEN "drop" ELSE "keep"
        future == IF future_only /\ Truthy(m.expiry) /\ m.expiry.wall < t
                  THEN "drop" ELSE "keep"
    IN  IF ~essential THEN "drop"
        ELSE IF cat # "keep" THEN cat
        ELSE IF volume # "keep" THEN volume
        ELSE future

\* The list filter_markets returns, or the exception that leaves it.
filter_markets(src, markets, category, min_volume, future_only, t) ==
    LET one(i) == FilterOne(src, markets[i], category, min_volume, future_only, t)
        kept(i) == \A h \in 1..i : one(h) \in {"keep", "drop"}
    IN  IF kept(Len(markets))
        THEN [list |-> SelectSeq(markets,
                          LAMBDA m : FilterOne(src, m, category, min_volume,
                                               future_only, t) = "keep"),
              exc |-> "none"]
        ELSE [list |-> <<>>,
              exc |-> one(CHOOSE i \in 1..Len(markets) :
                              ~kept(i) /\ (i = 1 \/ kept(i - 1)))]

\* The items "for m in v" yields.  Obj is a dict with the one key "error";
\* a str of the model has one character.
Iterate(v) ==
    CASE v.k = "arr" -> v.items
      [] v.k = "obj" -> <<Str("error")>>
      [] v.k = "markets" -> <<Str("markets")>>
      [] OTHER -> <<v>>

\* The try block of main(): the raw_markets it leaves, or the exception its
\* handler catches.  fetch_markets returns response.json() or raises; the
\* Kalshi main() then reads response.get("markets", []); both call
\* len(raw_markets).
FetchResult(src, resp) ==
    LET raw == IF src = SOURCE THEN resp
               ELSE IF resp.k = "markets" THEN resp.v
               ELSE IF resp.k = "obj" THEN Arr(<<>>)
               ELSE Raise("AttributeError")
    IN  IF IsRaise(resp) THEN [list |-> <<>>, exc |-> resp.exc]
        ELSE IF IsRaise(raw) THEN [list |-> <<>>, exc |-> raw.exc]
        ELSE IF raw.k \in {"arr", "obj", "markets"} \/ IsStr(raw)
             THEN [list |-> Iterate(raw), exc |-> "none"]
        ELSE [list |-> <<>>, exc |-> "TypeError"]

\* [parse_market(m) for m in raw_markets], or the exception that leaves it.
ParseAll(src, raws) ==
    LET ps == [i \in 1..Len(raws) |-> parse_market(src, raws[i])]
        e == FirstRaise(ps)
    IN  IF IsRaise(e) THEN [list |-> <<>>, exc |-> e.exc]
        ELSE [list |-> ps, exc |-> "none"]

(***************************************************************************)
(* Raw records.  Each set varies one or two fields of a well-formed        *)
(* record of its source.                                                   *)
(***************************************************************************)
MaxBatch == 2       \* markets in one API response
MaxTime == 3        \* wall-clock times 1..MaxTime

Times == 1..MaxTime
\* The wall time of every expiry in the raw records: not the first and not
\* the last of Times.
Noon == MaxTime - 1

RawKalshi ==
    [ticker |-> IdA, title |-> Str("A"), subtitle |-> None,
     category |-> Str("Crypto"), status |-> Str("open"),
     close_time |-> None, expiration_time |-> None,
     yes_bid |-> Num(60), yes_ask |-> Num(64), last_price |-> Num(62),
     volume |-> Num(10), volume_24h |-> Num(10)]

RawPolymarket ==
    [conditionId |-> IdA, condition_id |-> NoId, question |-> Str("A"),
     title |-> None, category |-> None, tags |-> None, active |-> Num(1),
     endDate |-> None, end_date_iso |-> None,
     outcomePrices |-> Json(Arr(<<NumStr(Dec(62)), NumStr(Dec(38))>>)),
     bestAsk |-> None, lastTradePrice |-> None,
     volume |-> NumStr(Num(10)), volumeNum |-> None]

\* Expiry values: "...Z", "...+02:00", no suffix, text, a number, a list.
RawExpiries ==
    {Iso(Noon, Str("Z")), Iso(Noon, Num(2)), Iso(Noon, None), Str("bad"),
     Num(5), Arr(<<Num(1)>>)}

\* outcomePrices values: a JSON list with an unparsable first element, an
\* empty JSON list, text that is no JSON, a JSON object, a JSON number, a
\* price above 1, and the same as lists and as a number.
RawOutcomePrices ==
    {Json(Arr(<<Str("abc")>>)), Json(Arr(<<>>)), Str("not json"), Json(Obj),
     NumStr(Dec(50)), Json(Arr(<<NumStr(Dec(150))>>)),
     Arr(<<NumStr(Dec(62))>>), Arr(<<Str("abc")>>), Num(5)}

\* bestAsk / lastTradePrice values.
RawAsks == {NumStr(Dec(62)), Dec(50), Dec(150), Str("abc"), Arr(<<Num(1)>>)}

\* tags values: keyword in the second tag, in upper case, two keywords in
\* one tag, no keyword, a tag that is no str, no tag, and no list.
RawTags ==
    {Arr(<<Str("misc"), Str("us-politics")>>), Arr(<<Str("US-Politics")>>),
     Arr(<<Str("crypto-politics")>>), Arr(<<Str("misc")>>),
     Arr(<<Num(5), Str("crypto")>>), Arr(<<Num(5)>>), Arr(<<>>), Num(5)}

\* Records for the parsing of one field, fetched one at a time.
ParseRecords(src) ==
    IF src = SOURCE
    THEN {[RawPolymarket EXCEPT !.endDate = v] : v \in RawExpiries}
         \cup {[RawPolymarket EXCEPT !.end_date_iso = Iso(Noon, Str("Z"))]}
         \cup {[RawPolymarket EXCEPT !.outcomePrices = v] :
                  v \in RawOutcomePrices}
         \cup {[RawPolymarket EXCEPT !.outcomePrices = None, !.bestAsk = v] :
                  v \in RawAsks}
         \cup {[RawPolymarket EXCEPT !.outcomePrices = Arr(<<>>),
                                     !.bestAsk = Num(0),
                                     !.lastTradePrice = v] :
                  v \in {None, Dec(50), Str("x")}}
         \cup {[RawPolymarket EXCEPT !.category = c, !.tags = v] :
                  c \in {None, Str(""), Str("Crypto")}, v \in RawTags}
         \cup {[RawPolymarket EXCEPT !.volume = v] :
                  v \in {None, Str("abc"), Dec(1050), Arr(<<Num(1)>>)}}
         \cup {[RawPolymarket EXCEPT !.conditionId = NoId,
                                     !.condition_id = IdA,
                                     !.question = None, !.title = Str("B"),
                                     !.active = None]}
    ELSE {[RawKalshi EXCEPT !.close_time = v] : v \in RawExpiries}
         \cup {[RawKalshi EXCEPT !.expiration_time = v] :
                  v \in {Iso(Noon, Str("Z")), Num(5)}}
         \cup {[RawKalshi EXCEPT !.last_price = v] :
                  v \in {None, Num(0), Num(100), Num(150)}}
         \cup {[RawKalshi EXCEPT !.yes_bid = Num(0 - 1)],
               [RawKalshi EXCEPT !.yes_ask = Num(101)]}
         \cup {[RawKalshi EXCEPT !.title = t, !.subtitle = s] :
                  t \in {None, Str("")}, s \in {None, Str(""), Str("B")}}
         \cup {[RawKalshi EXCEPT !.volume = Str("many")],
               [RawKalshi EXCEPT !.category = Num(5)]}

\* Records for the filters, fetched in lists: one that passes, and ones
\* that differ in category, volume, expiry, identity and title.
FilterRecords(src) ==
    IF src = SOURCE
    THEN {RawPolymarket,
          [RawPolymarket EXCEPT !.category = Str("Crypto"),
                                !.volume = Num(1)],
          [RawPolymarket EXCEPT !.tags = Arr(<<Str("us-politics")>>),
                                !.endDate = Iso(Noon, Str("Z"))],
          [RawPolymarket EXCEPT !.question = None,
                                !.category = Str("Crypto")],
          [RawPolymarket EXCEPT !.conditionId = NoId]}
    ELSE {RawKalshi,
          [RawKalshi EXCEPT !.category = Str("Politics"),
                            !.volume = Num(1), !.volume_24h = Num(1)],
          [RawKalshi EXCEPT !.close_time = Iso(Noon, Str("Z")),
                            !.volume = None],
          [RawKalshi EXCEPT !.title = None, !.category = None],
          [RawKalshi EXCEPT !.ticker = NoId]}

\* All sequences over S of length at most n.
RECURSIVE SeqsUpTo(_, _)
SeqsUpTo(S, n) ==
    IF n = 0 THEN {<<>>}
    ELSE LET shorter == SeqsUpTo(S, n - 1)
         IN  shorter \cup {Append(s, x) : s \in shorter, x \in S}

\* What fetch_markets may return.
Responses(src) ==
    SeqsUpTo(FilterRecords(src), MaxBatch)
    \cup {<<r>> : r \in ParseRecords(src)}

\* The arguments of filter_markets.
FilterArgs(src) ==
    [source : {src},
     category : {None, Str(""), Str("crypto"), Str("Politics")},
     min_volume : {None, Num(0), Num(5)},
     future_only : BOOLEAN]

\* The two records of the end-to-end scenario: outcome prices
\* ["0.62", "0.38"] with the tag us-politics and no category, and last
\* price 71 with category Economics.
ScenarioPolymarket == [RawPolymarket EXCEPT !.tags = Arr(<<Str("us-politics")>>)]
ScenarioKalshi ==
    [RawKalshi EXCEPT !.last_price = Num(71), !.category = Str("Economics")]

\* Records for the whole of main(): a well-formed one, the ones of the
\* scenario, Kalshi tickers that start with "poly_" (one of them ends with
\* "_YES"), records without title or identity, and records with another
\* status, or none.
PipelineRecords(src) ==
    IF src = SOURCE
    THEN {RawPolymarket, ScenarioPolymarket,
          [RawPolymarket EXCEPT !.question = None],
          [RawPolymarket EXCEPT !.conditionId = NoId],
          [RawPolymarket EXCEPT !.active = None]}
    ELSE {RawKalshi, ScenarioKalshi,
          [RawKalshi EXCEPT !.status = Str("active")],
          [RawKalshi EXCEPT !.status = None],
          [RawKalshi EXCEPT !.ticker = <<"poly_">> \o IdA, !.title = Str("B")],
          [RawKalshi EXCEPT !.ticker = <<"poly_">> \o IdA \o <<"_", "YES">>],
          [RawKalshi EXCEPT !.title = None],
          [RawKalshi EXCEPT !.title = Str(""), !.subtitle = Str("")],
          [RawKalshi EXCEPT !.ticker = NoId]}

\* What fetch_markets returns to main(): no market, or one of the records.
PipelineResponses(src) == {<<>>} \cup {<<r>> : r \in PipelineRecords(src)}

\* The JSON document that holds the list of markets l.
Response(src, l) == IF src = SOURCE THEN Arr(l) ELSE Markets(Arr(l))

\* A fetch that fails: fetch_markets raises (requests.get, raise_for_status
\* or response.json()), or the document has another shape: null, a number,
\* a str, a dict without markets, markets that is no list, a list of
\* markets where a dict is expected and the reverse.
FetchFailures(src) ==
    {Raise("ConnectionError"), Raise("Timeout"), Raise("HTTPError"),
     Raise("JSONDecodeError"), None, Num(5), Str("x"), Obj, Markets(None),
     Markets(Str("x")), Markets(Num(5)),
     IF src = SOURCE THEN Markets(Arr(<<RawPolymarket>>))
     ELSE Arr(<<RawKalshi>>)}

\* The command line of ingest_kalshi.py and ingest_polymarket.py without
\* options: main() always passes future_only=True.
PipelineArgs(src) ==
    [source : {src}, category : {None}, min_volume : {None},
     future_only : {TRUE}]

ingestvars ==
    <<db, tx, pending, active, pc, source, stats, result, clock, steps, log,
      prev, dbBefore, session>>

(***************************************************************************)
(* main(): fetch, parse, filter.                                           *)
(***************************************************************************)
\* args = parser.parse_args() with the command line a, and the try block
\* around fetch_markets(...), which produces resp: on an exception main()
\* prints it and returns.
main_fetch(src, resp, a) ==
    /\ stage \in {"start", "filtered", "ingest", "crashed", "returned",
                 "completed"}
    /\ pc # "loop"
    /\ LET r == FetchResult(src, resp)
       IN  /\ stage' = IF r.exc = "none" THEN "fetched" ELSE "returned"
           /\ raw_markets' = r.list
    /\ args' = a
    /\ response' = resp
    /\ parsed' = <<>>
    /\ filtered' = <<>>
    /\ now' = 0
    /\ crash' = "none"
    /\ printed' = <<>>
    /\ UNCHANGED ingestvars

\* parsed = [parse_market(m) for m in raw_markets]
main_parse ==
    /\ stage = "fetched"
    /\ LET r == ParseAll(args.source, raw_markets)
       IN  /\ parsed' = r.list
           /\ crash' = r.exc
           /\ stage' = IF r.exc = "none" THEN "parsed" ELSE "crashed"
    /\ UNCHANGED <<args, response, raw_markets, filtered, now, printed>>
    /\ UNCHANGED ingestvars

\* filtered = filter_markets(parsed, ...), which reads the clock once.
main_filter(t) ==
    /\ stage = "parsed"
    /\ now' = t
    /\ LET r == filter_markets(args.source, parsed, args.category,
                               args.min_volume, args.future_only, t)
       IN  /\ filtered' = r.list
           /\ crash' = r.exc
           /\ stage' = IF r.exc = "none" THEN "filtered" ELSE "crashed"
    /\ UNCHANGED <<args, response, raw_markets, parsed, printed>>
    /\ UNCHANGED ingestvars

\* The lines of print_summary.
Count(label, n) == [k |-> "count", label |-> label, n |-> n]
ErrorsHeader(n) == [k |-> "errors", n |-> n]
ErrorLine(err) == [k |-> "error", err |-> err]
More(n) == [k |-> "more", n |-> n]

\* Mutant: every error is printed.
print_summary_all(st) ==
    <<Count("Markets processed", st.markets_processed),
      Count("Contracts processed", st.contracts_processed),
      Count("Price snapshots", st.prices_inserted)>>
    \o (IF st.errors # <<>>
        THEN <<ErrorsHeader(Len(st.errors))>>
             \o [i \in 1..Len(st.errors) |-> ErrorLine(st.errors[i])]
        ELSE <<>>)

\* print_summary(stats), without its banner.
print_summary(st) ==
    <<Count("Markets processed", st.markets_processed),
      Count("Contracts processed", st.contracts_processed),
      Count("Price snapshots", st.prices_inserted)>>
    \o (IF st.errors # <<>>
        THEN <<ErrorsHeader(Len(st.errors))>>
             \o [i \in 1..(IF Len(st.errors) < 5 THEN Len(st.errors) ELSE 5) |->
                    ErrorLine(st.errors[i])]
             \o (IF Len(st.errors) > 5
                 THEN <<More(Len(st.errors) - 5)>> ELSE <<>>)
        ELSE <<>>)

\* stats = ingest_markets(...) has returned: print_summary(stats), and
\* main() returns.
main_summary ==
    /\ stage = "ingest"
    /\ pc = "done"
    /\ result = "return"
    /\ stage' = "completed"
    /\ printed' = print_summary(stats)
    /\ UNCHANGED <<args, response, raw_markets, parsed, filtered, now, crash>>
    /\ UNCHANGED ingestvars

\* The scripts fetch_kalshi_markets.py and fetch_polymarket.py, and their
\* filter_markets with every combination of arguments.
NextFetch ==
    \/ \E src \in Sources : \E resp \in Responses(src) :
          \E a \in FilterArgs(src) :
             /\ stage = "start"
             /\ main_fetch(src, Response(src, resp), a)
             /\ UNCHANGED callers
    \/ main_parse /\ UNCHANGED callers
    \/ \E t \in Times : main_filter(t) /\ UNCHANGED callers

SpecFetch == Init /\ [][NextFetch]_vars

\* The entry of the filtered list the loop of ingest_markets is at.
AtEntry == stage = "ingest" /\ Len(log) < Len(filtered)
Entry == filtered[Len(log) + 1]
AtEnd == stage = "ingest" /\ Len(log) = Len(filtered)

\* stats = ingest_markets(filtered, ...): the call, up to the loop.
main_ingest ==
    /\ stage = "filtered"
    /\ StartRun(args.source)
    /\ stage' = "ingest"
    /\ UNCHANGED <<args, response, raw_markets, parsed, filtered, now, crash,
                   printed>>

\* main() of ingest_kalshi.py and ingest_polymarket.py: fetch, parse,
\* filter, then ingest_markets(filtered).
NextPipeline ==
    \/ \E src \in Sources : \E resp \in PipelineResponses(src) :
          \E a \in PipelineArgs(src) :
             /\ stage # "filtered"
             /\ main_fetch(src, Response(src, resp), a)
             /\ UNCHANGED callers
    \/ main_parse /\ UNCHANGED callers
    \/ main_filter(Noon) /\ UNCHANGED callers
    \/ main_ingest /\ UNCHANGED callers
    \/ AtEntry /\ StepSkip(Entry) /\ UNCHANGED outervars
    \/ AtEntry /\ StepMarketFails(Entry) /\ UNCHANGED outervars
    \/ AtEntry /\ StepContractFails(Entry) /\ UNCHANGED outervars
    \/ AtEntry /\ StepOk(Entry) /\ UNCHANGED outervars
    \/ AtEnd /\ CommitOk /\ UNCHANGED outervars
    \/ AtEnd /\ CommitFails(TRUE) /\ UNCHANGED outervars
    \/ main_summary /\ UNCHANGED callers

SpecPipeline == Init /\ [][NextPipeline]_vars

\* The record of each source's scenario.
AppRecords(src) == IF src = SOURCE THEN ScenarioPolymarket ELSE ScenarioKalshi

\* main() of the ingest scripts when fetch_markets fails or returns a
\* document of another shape, between runs that fetch the scenario's record.
NextFailure ==
    \/ \E src \in Sources : \E a \in PipelineArgs(src) :
          /\ stage # "filtered"
          /\ main_fetch(src, Response(src, <<AppRecords(src)>>), a)
          /\ UNCHANGED callers
    \/ \E src \in Sources : \E resp \in FetchFailures(src) :
          \E a \in PipelineArgs(src) :
             /\ stage # "filtered"
             /\ main_fetch(src, resp, a)
             /\ UNCHANGED callers
    \/ main_parse /\ UNCHANGED callers
    \/ main_filter(Noon) /\ UNCHANGED callers
    \/ main_ingest /\ UNCHANGED callers
    \/ AtEntry /\ StepContractFails(Entry) /\ UNCHANGED outervars
    \/ AtEntry /\ StepOk(Entry) /\ UNCHANGED outervars
    \/ AtEnd /\ CommitOk /\ UNCHANGED outervars
    \/ AtEnd /\ CommitFails(TRUE) /\ UNCHANGED outervars
    \/ main_summary /\ UNCHANGED callers

SpecFailure == Init /\ [][NextFailure]_vars

(***************************************************************************)
(* print_summary on its own: the stats dict ingest_markets may return,     *)
(* with up to MaxErrors entries in errors.                                 *)
(***************************************************************************)
MaxErrors == 6      \* entries of stats["errors"]

SummaryErrors ==
    {ErrorEntry([id |-> IdA], "IntegrityError"),
     ErrorEntry([id |-> IdA], "OperationalError")}

\* The counters are incremented in the order market, contract, price.
SummaryStats ==
    {st \in [markets_processed : 0..MaxBatch,
             contracts_processed : 0..MaxBatch,
             prices_inserted : 0..MaxBatch,
             errors : SeqsUpTo(SummaryErrors, MaxErrors)] :
        /\ st.markets_processed >= st.contracts_processed
        /\ st.contracts_processed >= st.prices_inserted}

\* ingest_markets has just returned some stats dict to main().
InitSummary ==
    /\ db = EmptyStore
    /\ tx = EmptyStore
    /\ pending = <<>>
    /\ active = TRUE
    /\ pc = "done"
    /\ source \in Sources
    /\ stats \in SummaryStats
    /\ result = "return"
    /\ clock = 1
    /\ steps = 0
    /\ log = <<>>
    /\ prev = NoPrev
    /\ dbBefore = EmptyStore
    /\ session = session_close(get_session)
    /\ stage = "ingest"
    /\ args = [NoArgs EXCEPT !.source = source]
    /\ response = Response(source, <<>>)
    /\ raw_markets = <<>>
    /\ parsed = <<>>
    /\ filtered = <<>>
    /\ now = Noon
    /\ crash = "none"
    /\ printed = <<>>
    /\ ingest_all = AllStart
    /\ app = NoApp

NextSummary == main_summary /\ UNCHANGED callers

SpecSummary == InitSummary /\ [][NextSummary]_vars

(***************************************************************************)
(* main() of ingest_all.py: the Kalshi block, then the Polymarket block,   *)
(* each a try around the import and the call of the source's main().       *)
(* ingest_all.at is "start", the name of the source whose block is next,   *)
(* "in_kalshi" or "in_polymarket" while that main() runs, or "end".        *)
(***************************************************************************)
In(src) == IF src = SOURCE THEN "in_polymarket" ELSE "in_kalshi"
After(src) == IF src = SOURCE THEN "end" ELSE SOURCE
\* "if not args.poly_only" / "if not args.kalshi_only"
Selected(src) ==
    IF src = SOURCE THEN ~ingest_all.kalshi_only ELSE ~ingest_all.poly_only

\* The called main() has returned, or an exception has left it.
MainReturned == stage \in {"returned", "completed"}
MainRaised ==
    \/ stage = "crashed"
    \/ stage = "ingest" /\ pc = "done" /\ result # "return"
MainException == IF stage = "crashed" THEN crash ELSE result

Outcome(src, out) == [source |-> src, out |-> out]

\* args = parser.parse_args()
all_args(ko, po) ==
    /\ ingest_all.at = "start"
    /\ ingest_all' = [ingest_all EXCEPT !.at = "kalshi", !.kalshi_only = ko,
                                        !.poly_only = po]
    /\ UNCHANGED <<fetchvars, ingestvars, app>>

\* The block of src is not entered.
all_skip(src) ==
    /\ ingest_all.at = src
    /\ ~Selected(src)
    /\ ingest_all' = [ingest_all EXCEPT !.at = After(src)]
    /\ UNCHANGED <<fetchvars, ingestvars, app>>

\* "from ingest_... import main" raises inside the try: the handler prints.
all_import_fails(src) ==
    /\ ingest_all.at = src
    /\ Selected(src)
    /\ ingest_all' = [ingest_all EXCEPT
                         !.at = After(src),
                         !.outcomes = Append(@, Outcome(src, "ImportError"))]
    /\ UNCHANGED <<fetchvars, ingestvars, app>>

\* sys.argv is set to --limit, --db and maybe --quiet, and main() of src is
\* called: it runs up to the end of its try block.
all_call(src, resp) ==
    /\ ingest_all.at = src
    /\ Selected(src)
    /\ \E a \in PipelineArgs(src) : main_fetch(src, resp, a)
    /\ ingest_all' = [ingest_all EXCEPT !.at = In(src)]
    /\ UNCHANGED app

\* main() of src returns: sys.argv is restored and the block ends.
all_return(src) ==
    /\ ingest_all.at = In(src)
    /\ MainReturned
    /\ ingest_all' = [ingest_all EXCEPT
                         !.at = After(src),
                         !.outcomes = Append(@, Outcome(src, "returned"))]
    /\ UNCHANGED <<fetchvars, ingestvars, app>>

\* Mutant: no handler around the call; the exception leaves ingest_all.
all_except_uncaught(src) ==
    /\ ingest_all.at = In(src)
    /\ MainRaised
    /\ ingest_all' = [ingest_all EXCEPT
                         !.at = "crashed",
                         !.outcomes = Append(@, Outcome(src, MainException))]
    /\ UNCHANGED <<fetchvars, ingestvars, app>>

\* An exception leaves main() of src: "except Exception as e" prints it.
all_except(src) ==
    /\ ingest_all.at = In(src)
    /\ MainRaised
    /\ ingest_all' = [ingest_all EXCEPT
                         !.at = After(src),
                         !.outcomes = Append(@, Outcome(src, MainException))]
    /\ UNCHANGED <<fetchvars, ingestvars, app>>

\* A step of the main() that ingest_all has called.
InMain == ingest_all.at = In(args.source)

NextAll ==
    \/ \E ko, po \in BOOLEAN : all_args(ko, po)
    \/ \E src \in Sources : all_skip(src)
    \/ \E src \in Sources : all_import_fails(src)
    \/ \E src \in Sources : \E resp \in PipelineResponses(src) :
          all_call(src, Response(src, resp))
    \/ \E src \in Sources : \E resp \in FetchFailures(src) :
          all_call(src, resp)
    \/ InMain /\ main_parse /\ UNCHANGED callers
    \/ InMain /\ main_filter(Noon) /\ UNCHANGED callers
    \/ InMain /\ main_ingest /\ UNCHANGED callers
    \/ InMain /\ AtEntry /\ StepSkip(Entry) /\ UNCHANGED outervars
    \/ InMain /\ AtEntry /\ StepMarketFails(Entry) /\ UNCHANGED outervars
    \/ InMain /\ AtEntry /\ StepContractFails(Entry) /\ UNCHANGED outervars
    \/ InMain /\ AtEntry /\ StepOk(Entry) /\ UNCHANGED outervars
    \/ InMain /\ AtEnd /\ CommitOk /\ UNCHANGED outervars
    \/ InMain /\ AtEnd /\ CommitFails(TRUE) /\ UNCHANGED outervars
    \/ InMain /\ main_summary /\ UNCHANGED callers
    \/ \E src \in Sources : all_return(src)
    \/ \E src \in Sources : all_except(src)

\* The interpreter runs the script on: a step that can be taken is taken.
SpecAll == Init /\ [][NextAll]_vars /\ WF_vars(NextAll)

(***************************************************************************)
(* app.py: get_db_session(), the start-up of the dashboard, on the         *)
(* database file the ingestion scripts write.                              *)
(***************************************************************************)
\* SAMPLE_MARKETS of seed_sample_data.py.
SAMPLE_MARKETS ==
    <<[market_id |-> <<"FED-RATE-DEC-25">>,
       title |-> Str("Will the Fed cut rates in December 2025?"),
       category |-> Str("Economics"), expiry_days |-> 30, base_prob |-> 65],
      [market_id |-> <<"TRUMP-APPROVAL-50">>,
       title |-> Str("Will Trump approval rating exceed 50% by March?"),
       category |-> Str("Politics"), expiry_days |-> 90, base_prob |-> 35],
      [market_id |-> <<"BTC-100K-2025">>,
       title |-> Str("Will Bitcoin reach $100,000 in 2025?"),
       category |-> Str("Crypto"), expiry_days |-> 365, base_prob |-> 55],
      [market_id |-> <<"GDP-GROWTH-Q1">>,
       title |-> Str("Will Q1 2026 GDP growth exceed 2%?"),
       category |-> Str("Economics"), expiry_days |-> 120, base_prob |-> 48],
      [market_id |-> <<"SCOTUS-RULING-JAN">>,
       title |-> Str("Will SCOTUS rule on immigration case by January?"),
       category |-> Str("Politics"), expiry_days |-> 45, base_prob |-> 72],
      [market_id |-> <<"SP500-5500">>,
       title |-> Str("Will S&P 500 close above 5,500 by end of January?"),
       category |-> Str("Markets"), expiry_days |-> 50, base_prob |-> 60],
      [market_id |-> <<"UNEMPLOYMENT-4PCT">>,
       title |-> Str("Will unemployment rate stay below 4% through Q1?"),
       category |-> Str("Economics"), expiry_days |-> 100, base_prob |-> 68],
      [market_id |-> <<"HOUSE-SPEAKER-VOTE">>,
       title |-> Str("Will House Speaker face leadership challenge?"),
       category |-> Str("Politics"), expiry_days |-> 60, base_prob |-> 25]>>

\* title[:30] of the sample titles.
First30(s) ==
    CASE s = "Will the Fed cut rates in December 2025?" ->
            "Will the Fed cut rates in Dece"
      [] s = "Will Trump approval rating exceed 50% by March?" ->
            "Will Trump approval rating exc"
      [] s = "Will Bitcoin reach $100,000 in 2025?" ->
            "Will Bitcoin reach $100,000 in"
      [] s = "Will Q1 2026 GDP growth exceed 2%?" ->
            "Will Q1 2026 GDP growth exceed"
      [] s = "Will SCOTUS rule on immigration case by January?" ->
            "Will SCOTUS rule on immigratio"
      [] s = "Will S&P 500 close above 5,500 by end of January?" ->
            "Will S&P 500 close above 5,500"
      [] s = "Will unemployment rate stay below 4% through Q1?" ->
            "Will unemployment rate stay be"
      [] s = "Will House Speaker face leadership challenge?" ->
            "Will House Speaker face leader"
      [] OTHER -> s

\* A number the random module draws between lo and hi.
Random(lo, hi) == [k |-> "random", lo |-> lo, hi |-> hi]

\* The price points of one sample market: days * points_per_day of them,
\* (24 / points_per_day) hours apart and ending before now; the prices
\* are a random walk clamped to 1..99.
generate_price_history(base_prob) ==
    LET days == 7
        points_per_day == 6
        total_points == days * points_per_day
    IN  [i \in 1..total_points |->
            [timestamp |-> utcnow - (total_points - (i - 1)) * (24 \div points_per_day),
             last_price |-> Random(1, 99),
             bid_price |-> Random(1, 99),
             ask_price |-> Random(1, 99),
             volume_24h |-> Random(1000, 50000)]]

\* seed_database on the store t: for each sample market a Market and a
\* Contract without primary key are merged, that is INSERTed, and the
\* price history is added under the contract's id.
RECURSIVE seed_markets(_, _)
seed_markets(t, ms) ==
    IF ms = <<>> THEN t
    ELSE LET m == Head(ms)
             contract_id == Len(t.contracts) + 1
             prices == generate_price_history(m.base_prob)
         IN  seed_markets(
                 [markets |-> Append(t.markets,
                      [market_id |-> m.market_id, source |-> DefaultSource,
                       title |-> m.title, category |-> m.category,
                       status |-> Str("open"),
                       expiry_ts |-> Dt(utcnow + m.expiry_days, None),
                       created_at |-> utcnow, updated_at |-> utcnow]),
                  contracts |-> Append(t.contracts,
                      [market_id |-> m.market_id,
                       contract_ticker |-> m.market_id, side |-> "YES",
                       description |->
                           <<"YES contract for ", First30(m.title.v), "...">>,
                       created_at |-> utcnow]),
                  prices |-> t.prices \o
                      [i \in 1..Len(prices) |->
                          [contract_id |-> contract_id,
                           timestamp |-> prices[i].timestamp,
                           bid_price |-> prices[i].bid_price,
                           ask_price |-> prices[i].ask_price,
                           last_price |-> prices[i].last_price,
                           volume_24h |-> prices[i].volume_24h]]],
                 Tail(ms))

seed_database(t) == seed_markets(t, SAMPLE_MARKETS)

\* What the try block around "SELECT source FROM markets LIMIT 1" ends
\* with.  env is an exception that does not depend on the schema:
\* ArgumentError when the library takes no plain string as a statement,
\* OperationalError when the database is locked; without one, the SELECT
\* raises OperationalError exactly when the column is missing.
ProbeExceptions == {"ArgumentError", "OperationalError"}

Probe(exists, column, env) ==
    IF ~exists THEN "skipped"
    ELSE IF env # "none" THEN env
    ELSE IF column THEN "ok"
    ELSE "OperationalError"

\* The dashboard has not been started.
Stopped == app.at = "stopped"

\* get_db_session(), while no ingest_markets call is running.  exists is
\* os.path.exists(db_path), column whether the markets table of the file
\* has a source column.  A bare except around the probe removes the file;
\* init_db then creates what is missing, and seed_database runs when the
\* markets table has no row.
get_db_session(exists, column, env) ==
    /\ Stopped
    /\ pc # "loop"
    /\ (pc # "idle") => exists
    /\ column => exists
    /\ (~exists) => env = "none"
    /\ LET probe == Probe(exists, column, env)
           removed == exists /\ probe # "ok"
           store == IF removed \/ ~exists THEN EmptyStore ELSE db
           market_count == Len(store.markets)
           seeded == market_count = 0
           after == IF seeded THEN seed_database(store) ELSE store
       IN  /\ db' = after
           /\ app' = [at |-> "ready", exists |-> exists, column |-> column,
                      probe |-> probe, removed |-> removed,
                      market_count |-> market_count, seeded |-> seeded,
                      before |-> db, after |-> after]
    /\ UNCHANGED <<tx, pending, active, pc, source, stats, result, clock,
                   steps, log, prev, dbBefore, session, fetchvars, ingest_all>>


\* Ingestion runs of both sources, and then one start of the dashboard.
NextApp ==
    \/ \E src \in Sources : \E a \in PipelineArgs(src) :
          /\ Stopped
          /\ stage # "filtered"
          /\ main_fetch(src, Response(src, <<AppRecords(src)>>), a)
          /\ UNCHANGED callers
    \/ Stopped /\ main_parse /\ UNCHANGED callers
    \/ Stopped /\ main_filter(Noon) /\ UNCHANGED callers
    \/ Stopped /\ main_ingest /\ UNCHANGED callers
    \/ Stopped /\ AtEntry /\ StepContractFails(Entry) /\ UNCHANGED outervars
    \/ Stopped /\ AtEntry /\ StepOk(Entry) /\ UNCHANGED outervars
    \/ Stopped /\ AtEnd /\ CommitOk /\ UNCHANGED outervars
    \/ Stopped /\ AtEnd /\ CommitFails(TRUE) /\ UNCHANGED outervars
    \/ Stopped /\ main_summary /\ UNCHANGED callers
    \/ \E exists, column \in BOOLEAN :
          \E env \in ProbeExceptions \cup {"none"} :
             get_db_session(exists, column, env)

SpecApp == Init /\ [][NextApp]_vars

(***************************************************************************)
(* Properties.                                                             *)
(***************************************************************************)
Done == pc = "done"
Returned == Done /\ result = "return"
Raised == Done /\ result \notin {"none", "return"}

Entries == 1..Len(log)
MarketWritten(e) == e.out \in {"ok", "contractfail"}
WriteFailed(e) == e.out \in {"marketfail", "contractfail", "flushfail"}
Batch(l) == [i \in 1..Len(l) |-> l[i].m]

RowsWith(t, col, v) == {i \in 1..Len(t) : t[i][col] = v}
UniqueKey(t, col) ==
    \A i, j \in 1..Len(t) : t[i][col] = t[j][col] => i = j
IsPrefix(a, b) ==
    /\ Len(a) <= Len(b)
    /\ \A i \in 1..Len(a) : a[i] = b[i]

\* The price rows the call committed, and how many of them a contract owns.
NewPrices == SubSeq(db.prices, Len(dbBefore.prices) + 1, Len(db.prices))
CountOf(ps, c) == Cardinality({i \in 1..Len(ps) : ps[i].contract_id = c})
ContractOf(e) ==
    RowOf(db.contracts, "contract_ticker", ContractTicker(source, e.m.id, "YES"))

\* No two market rows share a market_id, no two contract rows a ticker.
UniqueKeys ==
    /\ UniqueKey(db.markets, "market_id")
    /\ UniqueKey(db.contracts, "contract_ticker")
    /\ UniqueKey(tx.markets, "market_id")
    /\ UniqueKey(tx.contracts, "contract_ticker")

\* C1: running ingest_markets twice on the same batch (here: from the empty
\* store, both runs without errors) leaves one market row per market_id, one
\* contract row per contract_ticker and exactly two price snapshots per
\* contract; and keys are unique after any sequence of runs.
C1_IdempotentReingestion ==
    /\ UniqueKeys
    /\ (/\ Returned
        /\ stats.errors = <<>>
        /\ prev.result = "return"
        /\ prev.source = source
        /\ Batch(prev.log) = Batch(log))
       => \A c \in 1..Len(db.contracts) : CountOf(db.prices, c) = 2

\* The same, for batches in which no market appears twice (not a claim).
IdempotentWithoutRepeats ==
    (/\ Returned
     /\ stats.errors = <<>>
     /\ prev.result = "return"
     /\ prev.source = source
     /\ Batch(prev.log) = Batch(log)
     /\ \A i, j \in Entries :
            (log[i].m.id = log[j].m.id /\ log[i].m.id # NoId) => i = j)
    => \A c \in 1..Len(db.contracts) : CountOf(db.prices, c) = 2

\* Entry i is the last of the batch whose market upsert succeeded for its
\* market_id.
LastWrite(i) ==
    /\ MarketWritten(log[i])
    /\ \A j \in (i + 1)..Len(log) :
          MarketWritten(log[j]) =>
              MarketId(source, log[j].m) # MarketId(source, log[i].m)

\* C2: latest ingestion wins: after the run commits, the single row of a
\* market_id holds the title, category, status and expiry of the last entry
\* ingested for it.
C2_LatestIngestionWins ==
    Returned =>
        \A i \in Entries :
            LastWrite(i) =>
                LET rows == RowsWith(db.markets, "market_id",
                                     MarketId(source, log[i].m))
                IN  /\ Cardinality(rows) = 1
                    /\ \A r \in rows :
                          /\ db.markets[r].title = log[i].m.title
                          /\ db.markets[r].category = log[i].m.category
                          /\ db.markets[r].status = log[i].m.status
                          /\ db.markets[r].expiry_ts = log[i].m.expiry

\* A committed run re-ingested an existing market with all four fields new.
C2_Witness ==
    /\ Returned
    /\ \E i \in Entries :
          /\ LastWrite(i)
          /\ \E r \in RowsWith(dbBefore.markets, "market_id",
                               MarketId(source, log[i].m)) :
                /\ dbBefore.markets[r].title # log[i].m.title
                /\ dbBefore.markets[r].category # log[i].m.category
                /\ dbBefore.markets[r].status # log[i].m.status
                /\ dbBefore.markets[r].expiry_ts # log[i].m.expiry

\* C3: an upsert on an existing market_id leaves created_at as first set and
\* sets updated_at to the time of the new run; a new row gets created_at at
\* its insertion.
C3_CreatedAtPreserved ==
    Done =>
        /\ Len(dbBefore.markets) <= Len(db.markets)
        /\ \A i \in 1..Len(dbBefore.markets) :
              /\ db.markets[i].market_id = dbBefore.markets[i].market_id
              /\ db.markets[i].created_at = dbBefore.markets[i].created_at
        /\ \A i \in (Len(dbBefore.markets) + 1)..Len(db.markets) :
              db.markets[i].created_at = clock
        /\ Returned =>
              \A i \in Entries :
                  MarketWritten(log[i]) =>
                      \A r \in RowsWith(db.markets, "market_id",
                                        MarketId(source, log[i].m)) :
                          db.markets[r].updated_at = clock

\* A committed run updated a row created by an earlier run.
C3_Witness ==
    /\ Returned
    /\ \E i \in 1..Len(dbBefore.markets) :
          /\ db.markets[i].updated_at = clock
          /\ db.markets[i].created_at < clock
          /\ dbBefore.markets[i].updated_at < clock

\* C4: price history is append-only: every committed price row stays where
\* it is, with identical fields, in the session's view and in the database,
\* whether the call commits, records errors or rolls back.
C4_PriceHistoryAppendOnly ==
    /\ IsPrefix(dbBefore.prices, tx.prices)
    /\ IsPrefix(dbBefore.prices, db.prices)

\* A run with a per-market error appended to the history of a contract.
C4_Witness ==
    /\ Returned
    /\ stats.errors # <<>>
    /\ \E i \in 1..Len(dbBefore.prices) :
          CountOf(NewPrices, dbBefore.prices[i].contract_id) > 0

\* C5: a committed run appends exactly one price snapshot per contract it
\* processed, also when the batch names the same market more than once.
C5_OneSnapshotPerContract ==
    Returned =>
        \A i \in Entries :
            log[i].out = "ok" => CountOf(NewPrices, ContractOf(log[i])) = 1

\* C6: per-market atomicity: a committed run wrote a market's metadata only
\* together with its contract and a price snapshot, and a price snapshot
\* only together with the metadata.
C6_PerMarketAtomicity ==
    Returned =>
        /\ \A i \in 1..Len(db.markets) :
              db.markets[i].updated_at = clock =>
                  \E c \in 1..Len(db.contracts) :
                      /\ db.contracts[c].market_id = db.markets[i].market_id
                      /\ CountOf(NewPrices, c) >= 1
        /\ \A p \in 1..Len(NewPrices) :
              \E i \in 1..Len(db.markets) :
                  /\ db.markets[i].market_id =
                        db.contracts[NewPrices[p].contract_id].market_id
                  /\ db.markets[i].updated_at = clock

\* C7: a store write that fails inside the per-market step does not abort
\* the run: the later entries are still processed, the writes of the
\* entries that succeeded are committed and the stats are returned.  (The
\* batch-fatal cases are set aside: an entry that is no dict, and a commit
\* that fails on its own.)
C7_BadRecordDoesNotAbort ==
    (/\ Done
     /\ \E i \in Entries : WriteFailed(log[i])
     /\ result \notin {"AttributeError", "OperationalError", "StatementError"})
    => /\ result = "return"
       /\ \A i \in Entries : log[i].out # "inactive"
       /\ Len(NewPrices) = stats.prices_inserted

\* C8: a batch-fatal failure leaves no partial batch: when the call raises,
\* the database holds exactly what it held before the call.
C8_RollbackLeavesNoPartialBatch ==
    Raised => db = dbBefore

\* The call raised after entries had been written in its transaction.
C8_Witness ==
    /\ Raised
    /\ \E i \in Entries : log[i].out = "ok"
    /\ \E i \in Entries : log[i].out = "contractfail"

\* C9: on return, errors holds exactly one entry per entry of the batch a
\* write failed for, in order, each led by the market_id under which that
\* market is keyed in the store.
FailedEntries == SelectSeq(log, LAMBDA e : e.out \in {"marketfail", "contractfail"})
C9_ErrorsEnumerateFailedMarkets ==
    Returned =>
        /\ Len(stats.errors) = Len(FailedEntries)
        /\ \A k \in 1..Len(FailedEntries) :
              k <= Len(stats.errors) =>
                  stats.errors[k].id = MarketId(source, FailedEntries[k].m)

\* C10: on return, markets_processed plus the entries skipped for a missing
\* identity is the number of entries of the batch.
Skipped == Cardinality({i \in Entries : log[i].out = "skip"})
C10_InputAccounting ==
    Returned => stats.markets_processed + Skipped = Len(log)

\* The same with the entries whose market upsert failed counted (not a claim).
MarketFailed == Cardinality({i \in Entries : log[i].out = "marketfail"})
InputAccountingWithFailures ==
    Returned => stats.markets_processed + Skipped + MarketFailed = Len(log)

\* C11: on return, markets_processed >= contracts_processed >=
\* prices_inserted; when errors is empty the three counters are equal and
\* equal the number of price rows the run appended.
C11_CountersAgree ==
    Returned =>
        /\ stats.markets_processed >= stats.contracts_processed
        /\ stats.contracts_processed >= stats.prices_inserted
        /\ stats.errors = <<>> =>
              /\ stats.prices_inserted = stats.contracts_processed
              /\ stats.contracts_processed = stats.markets_processed
              /\ stats.prices_inserted = Len(NewPrices)

\* A run without errors that skipped an entry and appended two snapshots.
C11_Witness ==
    /\ Returned
    /\ stats.errors = <<>>
    /\ stats.prices_inserted = 2
    /\ Len(NewPrices) = 2
    /\ Skipped = 1

\* C12: a batch entry with a missing native identifier (None or "") is
\* skipped: the step that consumes it writes nothing to the store or the
\* session, counts nothing and adds no entry to errors.
C12_MissingIdentitySkipped ==
    [][(/\ Len(log') = Len(log) + 1
        /\ "id" \in DOMAIN log'[Len(log')].m
        /\ log'[Len(log')].m.id = NoId)
       => UNCHANGED <<db, tx, pending, active, stats>>]_vars

\* An entry without identity was consumed right after one that was written.
C12_Witness ==
    /\ Len(log) >= 2
    /\ log[Len(log)].out = "skip"
    /\ log[Len(log)].m.id = NoId
    /\ log[Len(log) - 1].out = "ok"
    /\ stats.markets_processed = 1
    /\ stats.errors = <<>>

\* The run that just returned follows a clean first run of the other source.
AfterOtherSource ==
    /\ Returned
    /\ stage = "ingest"
    /\ prev.result = "return"
    /\ prev.source # source

\* C13: no cross-source identity collision: the market_id written for a
\* Kalshi market differs from the market_id written for a Polymarket
\* market, whatever their native identifiers, and a run of one source
\* leaves every market row of the other source as it was.
C13_NoCrossSourceCollision ==
    AfterOtherSource =>
        /\ \A i \in 1..Len(prev.log) : \A j \in Entries :
              (MarketWritten(prev.log[i]) /\ MarketWritten(log[j])) =>
                  MarketId(prev.source, prev.log[i].m) # MarketId(source, log[j].m)
        /\ \A i \in 1..Len(dbBefore.markets) :
              db.markets[i] = dbBefore.markets[i]

\* The same for native identifiers that map to different market_ids (not a
\* claim): then the rows of the other source are left alone.
OtherSourceRowsKept ==
    (/\ AfterOtherSource
     /\ \A i \in 1..Len(prev.log) : \A j \in Entries :
           (MarketWritten(prev.log[i]) /\ MarketWritten(log[j])) =>
               MarketId(prev.source, prev.log[i].m) # MarketId(source, log[j].m))
    => \A i \in 1..Len(dbBefore.markets) : db.markets[i] = dbBefore.markets[i]

\* main() got as far as a parsed list, or parse_market raised.
ParseRaised == stage = "crashed" /\ Len(parsed) < Len(raw_markets)
ParseReturned == stage \in {"parsed", "filtered"} \/ (stage = "crashed" /\ ~ParseRaised)
ParseDone == ParseRaised \/ ParseReturned

\* Every fetched record is RawPolymarket but for its price fields.
OnlyPricesVary ==
    /\ args.source = SOURCE
    /\ \A i \in 1..Len(raw_markets) :
          [raw_markets[i] EXCEPT !.outcomePrices = RawPolymarket.outcomePrices,
                                 !.bestAsk = RawPolymarket.bestAsk,
                                 !.lastTradePrice = RawPolymarket.lastTradePrice]
              = RawPolymarket

\* C14: price parsing never throws: whatever outcomePrices, bestAsk and
\* lastTradePrice hold, the Polymarket parse_market raises nothing and
\* returns a record whose yes_price is a number or absent (None), with the
\* other fields normalized.
C14_PriceParsingNeverThrows ==
    (ParseDone /\ OnlyPricesVary) =>
        /\ ~ParseRaised
        /\ \A i \in 1..Len(parsed) :
              /\ parsed[i].last.k \in {"none", "num"}
              /\ [parsed[i] EXCEPT !.last = Num(62)]
                    = parse_market(SOURCE, RawPolymarket)

\* Every fetched record is the well-formed record of its source but for its
\* expiry fields.
OnlyExpiryVaries ==
    \A i \in 1..Len(raw_markets) :
        IF args.source = SOURCE
        THEN [raw_markets[i] EXCEPT !.endDate = None, !.end_date_iso = None]
                 = RawPolymarket
        ELSE [raw_markets[i] EXCEPT !.close_time = None,
                                    !.expiration_time = None] = RawKalshi

\* The raw expiry value parse_market reads.
RawExpiry(src, raw) ==
    IF src = SOURCE THEN Or(raw.endDate, raw.end_date_iso)
    ELSE Or(raw.close_time, raw.expiration_time)

\* C15: expiry parsing never fails the record: for either source, a
\* missing, non-string or unparsable expiry makes parse_market return
\* expiry = None without raising, and a string with a trailing Z is parsed
\* as UTC.
C15_ExpiryParsingNeverFails ==
    (ParseDone /\ OnlyExpiryVaries) =>
        /\ ~ParseRaised
        /\ \A i \in 1..Len(parsed) :
              LET v == RawExpiry(args.source, raw_markets[i])
              IN  /\ v.k # "iso" => parsed[i].expiry = None
                  /\ (v.k = "iso" /\ v.suffix = Str("Z")) =>
                        parsed[i].expiry = Dt(v.wall, Num(0))

\* The same for Polymarket alone (not a claim).
ExpiryParsingPolymarket ==
    args.source = SOURCE => C15_ExpiryParsingNeverFails

\* A price field of a parsed market is absent or within 0..100.
InScale(p) == p.k = "num" => (0 <= p.v /\ p.v <= 100)

\* C16: price-scale invariant: every price parse_market returns, and so
\* every bid, ask and last price the pipeline stores, is within 0..100
\* whenever it is present.
C16_PriceScale ==
    ParseReturned =>
        \A i \in 1..Len(parsed) :
            /\ InScale(parsed[i].bid)
            /\ InScale(parsed[i].ask)
            /\ InScale(parsed[i].last)

\* A raw price of the source's own scale: cents 0..100 for Kalshi, a
\* probability 0..1 (number or numeric str) for Polymarket.
SourceScale(src, v) ==
    IF src = SOURCE
    THEN LET x == IF v.k = "numstr" THEN v.x ELSE v
         IN  \/ x.k = "dec" /\ 0 <= x.h /\ x.h <= 100
             \/ x.k = "num" /\ 0 <= x.v /\ x.v <= 1
             \/ x.k \notin {"dec", "num"}
    ELSE v.k = "num" => (0 <= v.v /\ v.v <= 100)
FirstOf(v) ==
    LET d == IF v.k = "json" THEN v.doc ELSE v
    IN  IF d.k = "arr" /\ d.items # <<>> THEN d.items[1] ELSE d

\* The price scale holds when the source reports on its own scale (not a
\* claim).
PriceScaleOfSourceScale ==
    ParseReturned =>
        \A i \in 1..Len(parsed) :
            LET r == raw_markets[i]
            IN  (IF args.source = SOURCE
                 THEN /\ SourceScale(SOURCE, FirstOf(r.outcomePrices))
                      /\ SourceScale(SOURCE, r.bestAsk)
                      /\ SourceScale(SOURCE, r.lastTradePrice)
                 ELSE /\ SourceScale("kalshi", r.yes_bid)
                      /\ SourceScale("kalshi", r.yes_ask)
                      /\ SourceScale("kalshi", r.last_price))
                => /\ InScale(parsed[i].bid)
                   /\ InScale(parsed[i].ask)
                   /\ InScale(parsed[i].last)

\* No market row of the store has an empty market_id.
StoredIdentityNonEmpty ==
    \A i \in 1..Len(db.markets) : db.markets[i].market_id # <<>>

\* C17: no stored market has an empty identity or title: after any sequence
\* of runs of main() (parse, filter, ingest) every market row has a
\* non-empty market_id and a non-empty title.
C17_NoEmptyIdentityOrTitle ==
    \A i \in 1..Len(db.markets) :
        /\ db.markets[i].market_id # <<>>
        /\ Truthy(db.markets[i].title)

\* A market that fails identity/title validation.
Rejected(m) == m.id = NoId \/ ~Truthy(m.title)

\* C18: a raw record without native identifier or without title, run
\* through parse_market, filter_markets and ingest_markets, causes no store
\* write and no entry in errors: if it reaches the loop at all it is
\* skipped.
C18_RejectedNeverAnError ==
    stage = "ingest" =>
        \A i \in Entries : Rejected(log[i].m) => log[i].out = "skip"

\* The same for Polymarket, whose filter_markets drops such records (not a
\* claim).
RejectedNeverAnErrorPolymarket ==
    (stage = "ingest" /\ source = SOURCE) =>
        \A i \in Entries : ~Rejected(log[i].m)

\* m is an element of the filtered list.
Retained(m) == \E j \in 1..Len(filtered) : filtered[j] = m

\* C19: with future_only set, filter_markets excludes a market whose expiry
\* is equal to or earlier than now, and retains a market without expiry
\* (that has identity and title, with no other filter set).
C19_FutureOnlyBoundary ==
    (stage = "filtered" /\ args.future_only) =>
        \A i \in 1..Len(parsed) :
            LET m == parsed[i]
            IN  /\ (Truthy(m.expiry) /\ m.expiry.wall <= now) => ~Retained(m)
                /\ (/\ m.expiry = None
                    /\ ~Rejected(m)
                    /\ ~Truthy(args.category)
                    /\ ~Truthy(args.min_volume)) => Retained(m)

\* The same with "earlier than now" only (not a claim).
FutureOnlyStrict ==
    (stage = "filtered" /\ args.future_only) =>
        \A i \in 1..Len(parsed) :
            LET m == parsed[i]
            IN  /\ (Truthy(m.expiry) /\ m.expiry.wall < now) => ~Retained(m)
                /\ (/\ m.expiry = None
                    /\ ~Rejected(m)
                    /\ ~Truthy(args.category)
                    /\ ~Truthy(args.min_volume)) => Retained(m)

\* The three predicates, as stated: category is a case-insensitive
\* substring match, volume reads the market's "volume" with absent as 0,
\* future-only drops an expiry before now.
CategoryPredicate(m) ==
    \/ ~Truthy(args.category)
    \/ LET c == Or(m.category, Str(""))
       IN  c.k = "str" /\ Contains(Lower(args.category.v), Lower(c.v))
VolumePredicate(m) ==
    \/ ~Truthy(args.min_volume)
    \/ LET v == Or(IF args.source = SOURCE THEN m.volume ELSE m.volume_total,
                   Num(0))
       IN  v.k = "num" /\ v.v >= args.min_volume.v
FuturePredicate(m) ==
    \/ ~args.future_only
    \/ ~Truthy(m.expiry)
    \/ ~(m.expiry.wall < now)

\* filter_markets with one filter set, at the same now.
OnlyCategory(l) ==
    filter_markets(args.source, l, args.category, None, FALSE, now)
OnlyVolume(l) ==
    filter_markets(args.source, l, None, args.min_volume, FALSE, now)
OnlyFuture(l) ==
    filter_markets(args.source, l, None, None, args.future_only, now)
Twice(l) ==
    filter_markets(args.source, l, args.category, args.min_volume,
                   args.future_only, now)
Listed(l) == [list |-> l, exc |-> "none"]

\* The three filters one after the other give the filtered list, in each of
\* the six orders.
AnyOrder ==
    /\ OnlyCategory(parsed).exc = "none"
    /\ OnlyVolume(parsed).exc = "none"
    /\ OnlyFuture(parsed).exc = "none"
    /\ OnlyFuture(OnlyVolume(OnlyCategory(parsed).list).list) = Listed(filtered)
    /\ OnlyVolume(OnlyFuture(OnlyCategory(parsed).list).list) = Listed(filtered)
    /\ OnlyFuture(OnlyCategory(OnlyVolume(parsed).list).list) = Listed(filtered)
    /\ OnlyCategory(OnlyFuture(OnlyVolume(parsed).list).list) = Listed(filtered)
    /\ OnlyVolume(OnlyCategory(OnlyFuture(parsed).list).list) = Listed(filtered)
    /\ OnlyCategory(OnlyVolume(OnlyFuture(parsed).list).list) = Listed(filtered)

\* C20: filter_markets is a conjunction of independent predicates: its
\* result is exactly the input markets, in input order, that satisfy the
\* category, the volume and the future-only predicate; the three filters
\* applied one at a time in any order give the same result; filtering the
\* result again returns it unchanged.
C20_FilterIsConjunction ==
    stage = "filtered" =>
        /\ filtered = SelectSeq(parsed,
                          LAMBDA m : /\ CategoryPredicate(m)
                                     /\ VolumePredicate(m)
                                     /\ FuturePredicate(m))
        /\ AnyOrder
        /\ Twice(filtered) = Listed(filtered)

\* The part that holds (not a claim): the result is a selection of the
\* input in input order by a per-market predicate, and filtering it again
\* changes nothing.
FilterSelectsAndIsIdempotent ==
    stage = "filtered" =>
        /\ filtered = SelectSeq(parsed,
                          LAMBDA m : FilterOne(args.source, m, args.category,
                                               args.min_volume,
                                               args.future_only, now) = "keep")
        /\ Twice(filtered) = Listed(filtered)

\* The category the Polymarket record r resolves to, as stated; a set, as
\* more than one keyword may occur in the tags.
Resolution(r) ==
    LET tags == IF r.tags.k = "arr" THEN r.tags.items ELSE <<>>
        lower(t) == IF t.k = "str" THEN Lower(t.v) ELSE ""
        found == {j \in 1..Len(category_keywords) :
                     \E i \in 1..Len(tags) :
                         Contains(category_keywords[j], lower(tags[i]))}
    IN  IF Truthy(r.category) THEN {r.category}
        ELSE IF found # {} THEN {Str(Capitalize(category_keywords[j])) : j \in found}
        ELSE IF tags # <<>> THEN {tags[1]}
        ELSE {None}

\* The record has tags that are a list, null or missing.
TagsListOrAbsent(r) == r.tags.k \in {"arr", "none"}

\* C21: category resolution of the Polymarket parse_market: an explicit
\* non-empty category is used as is; otherwise a keyword of the vocabulary
\* that some tag contains, capitalized; otherwise the first tag; None when
\* there are no tags.  The resolution raises nothing for missing or null
\* tags.
C21_CategoryResolution ==
    args.source = SOURCE =>
        /\ \A i \in 1..Len(raw_markets) :
              TagsListOrAbsent(raw_markets[i]) =>
                  ~IsRaise(Or(raw_markets[i].category,
                              extract_category(raw_markets[i].tags)))
        /\ ParseReturned =>
              \A i \in 1..Len(parsed) :
                  TagsListOrAbsent(raw_markets[i]) =>
                      parsed[i].category \in Resolution(raw_markets[i])

\* A record without category whose only tag holds a keyword in upper case
\* was parsed.
C21_Witness ==
    /\ args.source = SOURCE
    /\ stage = "parsed"
    /\ Len(parsed) = 1
    /\ ~Truthy(raw_markets[1].category)
    /\ raw_markets[1].tags = Arr(<<Str("US-Politics")>>)
    /\ parsed[1].category = Str("Politics")

StatusDomain == {Str("open"), Str("closed"), Str("settled")}

\* C22: status domain: after any sequence of runs of main() of either
\* source, the status of every market row is one of open, closed, settled.
C22_StatusDomain ==
    \A i \in 1..Len(db.markets) : db.markets[i].status \in StatusDomain

\* The same for what the Polymarket parse_market returns (not a claim).
StatusDomainPolymarket ==
    (ParseReturned /\ args.source = SOURCE) =>
        \A i \in 1..Len(parsed) : parsed[i].status \in StatusDomain

\* C23: guaranteed cleanup: a call of ingest_markets closes the session it
\* opened exactly once before control leaves the function, when it returns
\* (with or without per-market errors) and when it rolls back and raises;
\* outside a call no session is open.
C23_SessionClosedOnce ==
    /\ pc = "loop" => session = get_session
    /\ Done => session = session_close(get_session)
    /\ pc = "idle" => session = NoSession

\* A call rolled back and raised after it had written an entry.
C23_Witness ==
    /\ Raised
    /\ \E i \in Entries : log[i].out = "ok"
    /\ session.state = "closed"
    /\ session.closes = 1

\* The fetch failed: fetch_markets raised, or the document is not the list
\* of markets (Polymarket) or the dict with the list of markets (Kalshi).
FetchRaised(r) == IsRaise(r)
FetchFailed(src, r) ==
    /\ r # NoResponse
    /\ \/ FetchRaised(r)
       \/ IF src = SOURCE THEN r.k # "arr"
          ELSE r.k # "markets" \/ r.v.k # "arr"

\* C24: a failed fetch yields zero markets and never crashes the pipeline:
\* in a run of main() whose fetch failed (network or HTTP error, timeout,
\* malformed response), there are no markets, no exception leaves main()
\* and no step changes the store.
C24_FailedFetchYieldsNothing ==
    [][FetchFailed(args'.source, response') =>
          /\ raw_markets' = <<>>
          /\ crash' = "none"
          /\ db' = db]_vars

\* The same for a fetch_markets that raises (not a claim): main() returns
\* from its handler.
FetchErrorReturns ==
    [][FetchRaised(response') =>
          /\ stage' = "returned"
          /\ raw_markets' = <<>>
          /\ crash' = "none"
          /\ UNCHANGED ingestvars]_vars

\* The lines of one kind that print_summary wrote.
Lines(kind) == SelectSeq(printed, LAMBDA l : l.k = kind)
Min(a, b) == IF a < b THEN a ELSE b

\* C25: capped error report: for an errors list of length n, print_summary
\* prints the three counts, then the first min(n, 5) errors in list order,
\* and a line with the suppressed count n - 5 if and only if n > 5; no
\* error section when n = 0.
C25_CappedErrorReport ==
    stage = "completed" =>
        LET n == Len(stats.errors)
        IN  /\ SubSeq(printed, 1, 3) =
                  <<Count("Markets processed", stats.markets_processed),
                    Count("Contracts processed", stats.contracts_processed),
                    Count("Price snapshots", stats.prices_inserted)>>
            /\ Lines("error") =
                  [i \in 1..Min(n, 5) |-> ErrorLine(stats.errors[i])]
            /\ Lines("more") = IF n > 5 THEN <<More(n - 5)>> ELSE <<>>
            /\ n > 5 => printed[Len(printed)] = More(n - 5)
            /\ n = 0 => Len(printed) = 3

\* A summary of six errors, not all alike, was printed.
C25_Witness ==
    /\ stage = "completed"
    /\ Len(stats.errors) = 6
    /\ stats.errors[1] # stats.errors[2]
    /\ Len(Lines("error")) = 5
    /\ Lines("more") = <<More(1)>>

\* From the empty store, main() of ingest_polymarket.py ran on the first
\* record of the scenario, then main() of ingest_kalshi.py on the second,
\* and the store failed no statement.
ScenarioRan ==
    /\ Returned
    /\ \A i \in Entries : log[i].out # "contractfail"
    /\ source = "kalshi"
    /\ raw_markets = <<ScenarioKalshi>>
    /\ Batch(log) = <<parse_market("kalshi", ScenarioKalshi)>>
    /\ prev.result = "return"
    /\ prev.source = SOURCE
    /\ Batch(prev.log) = <<parse_market(SOURCE, ScenarioPolymarket)>>

C27_SnapshotOwnership ==
    Returned =>
        \A i \in Entries :
            log[i].out = "ok" =>
                db.contracts[ContractOf(log[i])].market_id
                    = MarketId(source, log[i].m)

\* The same when the contract_ticker of every entry is new to the store or
\* is the ticker of a contract of the same market (not a claim).
SnapshotOwnershipOfOwnTickers ==
    (/\ Returned
     /\ \A i \in Entries :
           log[i].out = "ok" =>
               LET c == RowOf(dbBefore.contracts, "contract_ticker",
                              ContractTicker(source, log[i].m.id, "YES"))
               IN  c # 0 => dbBefore.contracts[c].market_id
                                = MarketId(source, log[i].m))
    => \A i \in Entries :
           log[i].out = "ok" =>
               db.contracts[ContractOf(log[i])].market_id
                   = MarketId(source, log[i].m)

\* Every contract row of store t names a market row of t, and every price
\* row a contract row (contracts.id is the position of the row).
Referential(t) ==
    /\ \A c \in 1..Len(t.contracts) :
          RowsWith(t.markets, "market_id", t.contracts[c].market_id) # {}
    /\ \A p \in 1..Len(t.prices) :
          t.prices[p].contract_id \in 1..Len(t.contracts)

\* C28: referential integrity: in every committed state every contract row
\* names an existing market row and every price row an existing contract
\* row; inside a run the market is written before its contract and the
\* contract before its price, so the same holds of the session's view,
\* and a Price object waiting for its flush names a contract row that is
\* already there.
C28_ReferentialIntegrity ==
    /\ Referential(db)
    /\ Referential(tx)
    /\ \A p \in 1..Len(pending) :
          /\ pending[p].contract_id \in 1..Len(tx.contracts)
          /\ RowsWith(tx.markets, "market_id",
                      tx.contracts[pending[p].contract_id].market_id) # {}

\* A committed store with markets of both sources and two snapshots of a
\* contract, after a run in which a contract upsert failed and left a
\* market without contract.
C28_Witness ==
    /\ Returned
    /\ Len(db.markets) = 2
    /\ Len(db.contracts) = 1
    /\ Len(db.prices) >= 2
    /\ \E i \in Entries : log[i].out = "contractfail"
    /\ \E m \in 1..Len(db.markets) :
          RowsWith(db.contracts, "market_id", db.markets[m].market_id) = {}

\* The outcomes recorded for src.
OutcomesOf(src) == SelectSeq(ingest_all.outcomes, LAMBDA o : o.source = src)

\* The Kalshi main() returned after it committed, and the Polymarket
\* main() that followed raised out of ingest_markets.
PolymarketRolledBack ==
    /\ ingest_all.at \in {"in_polymarket", "end"}
    /\ source = SOURCE
    /\ Raised
    /\ prev.source = "kalshi"
    /\ prev.result = "return"

\* C29: source isolation in ingest_all.main: while the Polymarket pipeline
\* runs, the Kalshi pipeline has run to its end (no session of it is open
\* and every step is a Polymarket step); each selected source has exactly
\* one outcome at the end, whatever the other source's pipeline raised;
\* the rows the Kalshi run committed are in the store when the Polymarket
\* run rolls back; no exception leaves main, which always reaches its end.
C29_SourceIsolation ==
    /\ [](/\ ingest_all.at = SOURCE =>
                 (pc # "loop" /\ session.state # "open"
                  /\ stage \notin {"fetched", "parsed", "filtered"})
          /\ ingest_all.at = "in_polymarket" =>
                 (args.source = SOURCE /\ (pc = "loop" => source = SOURCE))
          /\ ingest_all.at = "end" =>
                 \A src \in Sources :
                     Len(OutcomesOf(src)) = IF Selected(src) THEN 1 ELSE 0
          /\ PolymarketRolledBack =>
                 /\ db = dbBefore
                 /\ \A i \in 1..Len(prev.log) :
                       prev.log[i].out = "ok" =>
                           \E r \in RowsWith(db.markets, "market_id",
                                              MarketId("kalshi", prev.log[i].m)) :
                               db.markets[r].title = prev.log[i].m.title
          /\ ingest_all.at # "crashed")
    /\ <>(ingest_all.at = "end")

\* An exception left the Kalshi main(), and the Polymarket main() that
\* followed committed a market.
C29_Witness ==
    /\ ingest_all.at = "end"
    /\ Len(ingest_all.outcomes) = 2
    /\ ingest_all.outcomes[1].source = "kalshi"
    /\ ingest_all.outcomes[1].out \notin {"returned", "ImportError"}
    /\ ingest_all.outcomes[2] = Outcome(SOURCE, "returned")
    /\ stage = "completed"
    /\ Len(db.markets) = 1
    /\ db.markets[1].source = SOURCE

(***************************************************************************)
(* Start-up of the dashboard.                                              *)
(***************************************************************************)
Started == app.at = "ready"

\* Every row of table b is a row of table a.
RowsPresent(b, a) == \A i \in 1..Len(b) : \E j \in 1..Len(a) : a[j] = b[i]

Preserved ==
    /\ RowsPresent(app.before.markets, app.after.markets)
    /\ RowsPresent(app.before.contracts, app.after.contracts)
    /\ RowsPresent(app.before.prices, app.after.prices)

\* C30: dashboard start-up preserves accumulated history: get_db_session
\* removes the existing database file only when the probe for the
\* markets.source column fails; when the existing database has that column,
\* every market, contract and price row present before start-up is present
\* afterwards; and sample data is seeded only if the markets table is empty.
C30_StartupPreservesHistory ==
    Started =>
        /\ app.removed => (app.exists /\ app.probe \in ProbeExceptions)
        /\ (app.exists /\ app.column) => Preserved
        /\ app.seeded => (app.removed \/ app.before.markets = <<>>)

\* What holds of every start-up: the file is removed only after a failed
\* probe, the rows are kept whenever the probe succeeds, and the seeding
\* happens only into an empty markets table.
StartupPreservesHistoryWhenProbeSucceeds ==
    Started =>
        /\ app.removed => (app.exists /\ app.probe \in ProbeExceptions)
        /\ app.probe = "ok" => (Preserved /\ ~app.removed)
        /\ app.seeded => (app.removed \/ app.before.markets = <<>>)
        /\ (~app.seeded) => app.after = app.before

\* A start-up that finds history in a database with the source column and
\* keeps it.
HistoryKept ==
    /\ Started
    /\ app.probe = "ok"
    /\ Len(app.before.markets) = 2
    /\ app.before.prices # <<>>
    /\ ~app.seeded
    /\ db = app.before

====
